---- MODULE Spec2Model ----
(***************************************************************************)
(* Model of orbitize/priors.py: the prior distributions (Gaussian,         *)
(* Jeffreys, Uniform, Sin, Linear), their compute_lnprob and draw_samples  *)
(* methods, and the aggregator all_lnpriors.                               *)
(*                                                                         *)
(* Numbers.  A float is written in thousandths, rounded to the nearest     *)
(* thousandth: 1300 is 1.3, 3142 is pi.  The inputs are taken from a       *)
(* finite grid of such numbers on which the rounding keeps the order.      *)
(* -inf is written NegInf, a number below every finite value of the model, *)
(* and Add is float addition on finite values and -inf.                    *)
(*                                                                         *)
(* numpy.  The model follows the numpy the module was written for (1.x):   *)
(* np.size of a scalar is 1 and np.where of a 0-d condition indexes it as  *)
(* a 1-d array of one element, so compute_lnprob of a scalar parameter     *)
(* returns one value, which `logp +=` broadcasts.                          *)
(***************************************************************************)
EXTENDS Integers, Sequences, FiniteSets, TLC

VARIABLES
    priors,     \* the caller's list of prior objects (their attributes)
    params,     \* the caller's parameter vector, a numpy array
    pc,         \* all_lnpriors: "idle", "loop", "done" (returned), "raised"
    it,         \* all_lnpriors: number of pairs of the zip consumed so far
    logp,       \* all_lnpriors: the accumulator
    trace,      \* all_lnpriors: the compute_lnprob calls made, in order
    exc,        \* all_lnpriors: the exception that left it, "" if none
    call        \* the last direct method call on a prior and its outcome

vars == <<priors, params, pc, it, logp, trace, exc, call>>

\* ------------------------------------------------------------ bounds

\* longest prior list and longest parameter array
MaxLen == 2
\* largest num_samples
MaxSamples == 2

\* ------------------------------------------------------------ numbers

\* thousandths per unit
Scale == 1000
\* -np.inf
NegInf == -1000000000
\* np.pi, in thousandths
Pi == 3142

\* the grid the array elements and parameters are taken from
Vals == {-1000, 0, 1300, 1571, 2000, 4000}

\* the grid the random generator's outcomes are taken from
Grid == Vals \cup {-500, 262, 452, 500, 693, 1000}

\* the outcomes of a standard normal draw
ZVals == {-1000, 0, 1000}

\* float addition on finite values and -inf (no +inf and no nan arise)
Add(a, b) == IF a = NegInf \/ b = NegInf THEN NegInf ELSE a + b

\* np.sin on the grid
Sin(x) ==
    CASE x = -1000 -> -841
      [] x = 0     -> 0
      [] x = 1300  -> 964
      [] x = 1571  -> 1000
      [] x = 2000  -> 909
      [] x = 4000  -> -757

\* np.log on the grid's positive values
Ln(x) ==
    CASE x = 1300 -> 262
      [] x = 1571 -> 452
      [] x = 2000 -> 693

\* np.exp on the outcomes of the uniform draw on [logmin, logmax]
Exp(y) ==
    CASE y = 262  -> 1300
      [] y = 452  -> 1571
      [] y = 500  -> 1649
      [] y = 693  -> 2000

\* np.arccos on the outcomes of the uniform draw on [-1, 1]
ArcCos(u) ==
    CASE u = -1000 -> 3142
      [] u = -500  -> 2094
      [] u = 0     -> 1571
      [] u = 262   -> 1306
      [] u = 452   -> 1102
      [] u = 500   -> 1047
      [] u = 693   -> 805
      [] u = 1000  -> 0

\* ------------------------------------------------------------ constructors

GaussianPrior(mu, sigma) ==
    [kind |-> "Gaussian", mu |-> mu, sigma |-> sigma]

JeffreysPrior(minval, maxval) ==
    [kind |-> "Jeffreys", minval |-> minval, maxval |-> maxval,
     logmin |-> Ln(minval), logmax |-> Ln(maxval)]

UniformPrior(minval, maxval) ==
    [kind |-> "Uniform", minval |-> minval, maxval |-> maxval]

SinPrior == [kind |-> "Sin"]

LinearPrior(m, b) == [kind |-> "Linear"]

\* a concrete subclass of Prior whose compute_lnprob raises
RaisingPrior == [kind |-> "Raising"]

\* the prior objects of the model
PriorObjs ==
    { GaussianPrior(1300, 200), JeffreysPrior(1300, 2000),
      UniformPrior(0, 2000), SinPrior, LinearPrior(1000, 0), RaisingPrior }

\* ------------------------------------------------------------ compute_lnprob
\* Each returns the outcome ("return" with lnprob, "none" for a method that
\* returns nothing, "raise" with the exception), and what the call leaves in
\* the object and in the caller's array.

Outcome(outcome, lnprob, err, self, element_array) ==
    [outcome |-> outcome, lnprob |-> lnprob, err |-> err,
     self |-> self, element_array |-> element_array]

\* (mutant) the operands of the subtraction swapped
Gaussian_compute_lnprob_swapped(self, element_array) ==
    Outcome("return",
            [n \in DOMAIN element_array |->
                ((self.mu - element_array[n]) * Scale) \div self.sigma],
            "", self, element_array)

Gaussian_compute_lnprob(self, element_array) ==
    Outcome("return",
            [n \in DOMAIN element_array |->
                ((element_array[n] - self.mu) * Scale) \div self.sigma],
            "", self, element_array)

\* (mutant) the test against minval forgotten
Jeffreys_compute_lnprob_maxonly(self, element_array) ==
    LET outofbounds == { n \in DOMAIN element_array :
                            element_array[n] > self.maxval }
        lnprob == [n \in 1..Len(element_array) |->
                      IF n \in outofbounds THEN NegInf ELSE 0]
    IN Outcome("return", lnprob, "", self, element_array)

Jeffreys_compute_lnprob(self, element_array) ==
    LET outofbounds == { n \in DOMAIN element_array :
                            \/ element_array[n] > self.maxval
                            \/ element_array[n] < self.minval }
        lnprob == [n \in 1..Len(element_array) |->
                      IF n \in outofbounds THEN NegInf ELSE 0]
    IN Outcome("return", lnprob, "", self, element_array)

\* (mutant) >= and <= for > and <: the bounds themselves out of bounds
Uniform_compute_lnprob_exclusive(self, element_array) ==
    LET outofbounds == { n \in DOMAIN element_array :
                            \/ element_array[n] >= self.maxval
                            \/ element_array[n] <= self.minval }
        lnprob == [n \in 1..Len(element_array) |->
                      IF n \in outofbounds THEN NegInf ELSE 0]
    IN Outcome("return", lnprob, "", self, element_array)

Uniform_compute_lnprob(self, element_array) ==
    LET outofbounds == { n \in DOMAIN element_array :
                            \/ element_array[n] > self.maxval
                            \/ element_array[n] < self.minval }
        lnprob == [n \in 1..Len(element_array) |->
                      IF n \in outofbounds THEN NegInf ELSE 0]
    IN Outcome("return", lnprob, "", self, element_array)

\* (mutant) the result written into the input array: lnprob = element_array
\* for lnprob = np.sin(element_array), then filled in place
Sin_compute_lnprob_inplace(self, element_array) ==
    LET lnprob == [n \in DOMAIN element_array |-> Sin(element_array[n])]
    IN Outcome("return", lnprob, "", self, lnprob)

Sin_compute_lnprob(self, element_array) ==
    Outcome("return",
            [n \in DOMAIN element_array |-> Sin(element_array[n])],
            "", self, element_array)

Linear_compute_lnprob(self, element_array) ==
    Outcome("none", <<>>, "", self, element_array)

Raising_compute_lnprob(self, element_array) ==
    Outcome("raise", <<>>, "Error", self, element_array)

\* prior.compute_lnprob(element_array): dynamic dispatch on the object's class
compute_lnprob(self, element_array) ==
    CASE self.kind = "Gaussian" -> Gaussian_compute_lnprob(self, element_array)
      [] self.kind = "Jeffreys" -> Jeffreys_compute_lnprob(self, element_array)
      [] self.kind = "Uniform"  -> Uniform_compute_lnprob(self, element_array)
      [] self.kind = "Sin"      -> Sin_compute_lnprob(self, element_array)
      [] self.kind = "Linear"   -> Linear_compute_lnprob(self, element_array)
      [] self.kind = "Raising"  -> Raising_compute_lnprob(self, element_array)

\* ------------------------------------------------------------ draw_samples
\* The random generator is the caller's: each method is given the array the
\* generator returns, any array the call may produce.

\* np.random.uniform(low, high, size): any values of the grid in [low, high]
np_random_uniform(low, high, size) ==
    [1..size -> { v \in Grid : low <= v /\ v <= high }]

\* np.random.normal(loc, scale, size): loc + scale * z, z standard normal
np_random_normal(loc, scale, size) ==
    { [n \in 1..size |-> loc + (scale * z[n]) \div Scale] :
        z \in [1..size -> ZVals] }

Gaussian_draw_samples(self, num_samples, rnd) ==
    [outcome |-> "return", samples |-> rnd]

Jeffreys_draw_samples(self, num_samples, rnd) ==
    [outcome |-> "return", samples |-> [n \in DOMAIN rnd |-> Exp(rnd[n])]]

Uniform_draw_samples(self, num_samples, rnd) ==
    [outcome |-> "return", samples |-> rnd]

\* (mutant) arcsin for arccos
Sin_draw_samples_arcsin(self, num_samples, rnd) ==
    [outcome |-> "return",
     samples |-> [n \in DOMAIN rnd |-> 1571 - ArcCos(rnd[n])]]

Sin_draw_samples(self, num_samples, rnd) ==
    [outcome |-> "return", samples |-> [n \in DOMAIN rnd |-> ArcCos(rnd[n])]]

Linear_draw_samples(self, num_samples, rnd) ==
    [outcome |-> "none", samples |-> <<>>]

\* the arrays the generator can return to self.draw_samples(num_samples)
Generated(self, num_samples) ==
    CASE self.kind = "Gaussian" ->
            np_random_normal(self.mu, self.sigma, num_samples)
      [] self.kind = "Jeffreys" ->
            np_random_uniform(self.logmin, self.logmax, num_samples)
      [] self.kind = "Uniform" ->
            np_random_uniform(self.minval, self.maxval, num_samples)
      [] self.kind = "Sin" ->
            np_random_uniform(-1000, 1000, num_samples)
      [] self.kind = "Linear" -> {<<>>}

\* prior.draw_samples(num_samples): dynamic dispatch on the object's class
draw_samples(self, num_samples, rnd) ==
    CASE self.kind = "Gaussian" -> Gaussian_draw_samples(self, num_samples, rnd)
      [] self.kind = "Jeffreys" -> Jeffreys_draw_samples(self, num_samples, rnd)
      [] self.kind = "Uniform"  -> Uniform_draw_samples(self, num_samples, rnd)
      [] self.kind = "Sin"      -> Sin_draw_samples(self, num_samples, rnd)
      [] self.kind = "Linear"   -> Linear_draw_samples(self, num_samples, rnd)

\* ------------------------------------------------------------ all_lnpriors

Min(a, b) == IF a < b THEN a ELSE b

\* (mutant) range(len - 1): the last pair is left out
Zip_short(ps, qs) ==
    [n \in 1..(Min(Len(ps), Len(qs)) - 1) |->
        [param |-> ps[n], prior |-> qs[n]]]

\* zip(params, priors): the pairs, as long as the shorter of the two
Zip(ps, qs) ==
    [n \in 1..Min(Len(ps), Len(qs)) |-> [param |-> ps[n], prior |-> qs[n]]]

\* (mutant) `logp =` for `logp +=`
LoopBody_assign(acc, pair) ==
    LET r == compute_lnprob(pair.prior, <<pair.param>>)
    IN CASE r.outcome = "raise" ->
                [pc |-> "raised", logp |-> acc, exc |-> r.err]
         [] r.outcome = "none" ->
                [pc |-> "raised", logp |-> acc, exc |-> "TypeError"]
         [] r.outcome = "return" ->
                [pc |-> "loop", logp |-> r.lnprob[1], exc |-> ""]

\* (mutant) the call wrapped in try/except: a failing prior is skipped
LoopBody_except(acc, pair) ==
    LET r == compute_lnprob(pair.prior, <<pair.param>>)
    IN CASE r.outcome = "raise" ->
                [pc |-> "loop", logp |-> acc, exc |-> ""]
         [] r.outcome = "none" ->
                [pc |-> "loop", logp |-> acc, exc |-> ""]
         [] r.outcome = "return" ->
                [pc |-> "loop", logp |-> Add(acc, r.lnprob[1]), exc |-> ""]

\* one pass of the loop body, `logp += prior.compute_lnprob(param)`, on the
\* pair `pair`: the accumulator and where control goes
LoopBody(acc, pair) ==
    LET r == compute_lnprob(pair.prior, <<pair.param>>)
    IN CASE r.outcome = "raise" ->
                [pc |-> "raised", logp |-> acc, exc |-> r.err]
         [] r.outcome = "none" ->
                \* float += None
                [pc |-> "raised", logp |-> acc, exc |-> "TypeError"]
         [] r.outcome = "return" ->
                [pc |-> "loop", logp |-> Add(acc, r.lnprob[1]), exc |-> ""]

\* ------------------------------------------------------------ the caller

NoCall ==
    [op |-> "", p |-> 0, num_samples |-> 0, rnd |-> <<>>,
     outcome |-> "", ret |-> <<>>, again |-> FALSE]

\* the arrays and lists of the model
Arrays == UNION { [1..n -> Vals] : n \in 0..MaxLen }
PriorLists == UNION { [1..n -> PriorObjs] : n \in 0..MaxLen }

Init ==
    /\ priors \in PriorLists
    /\ params \in Arrays
    /\ pc = "idle"
    /\ it = 0
    /\ logp = 0
    /\ trace = <<>>
    /\ exc = ""
    /\ call = NoCall

\* the caller calls priors[p].compute_lnprob(params) on the whole array
ComputeLnprob(p) ==
    /\ pc # "loop"
    /\ LET r == compute_lnprob(priors[p], params)
       IN /\ priors' = [priors EXCEPT ![p] = r.self]
          /\ params' = r.element_array
          /\ call' = [op |-> "compute_lnprob", p |-> p, num_samples |-> 0,
                      rnd |-> <<>>, outcome |-> r.outcome, ret |-> r.lnprob,
                      again |-> (call.op = "compute_lnprob" /\ call.p = p)]
    /\ UNCHANGED <<pc, it, logp, trace, exc>>

\* the caller calls priors[p].draw_samples(num_samples)
DrawSamples(p, num_samples) ==
    /\ pc # "loop"
    /\ \E rnd \in Generated(priors[p], num_samples) :
          LET r == draw_samples(priors[p], num_samples, rnd)
          IN call' = [op |-> "draw_samples", p |-> p,
                      num_samples |-> num_samples, rnd |-> rnd,
                      outcome |-> r.outcome, ret |-> r.samples,
                      again |-> FALSE]
    /\ UNCHANGED <<priors, params, pc, it, logp, trace, exc>>

\* all_lnpriors(params, priors) is entered: logp = 0.
AllLnpriorsCall ==
    /\ pc # "loop"
    /\ pc' = "loop"
    /\ it' = 0
    /\ logp' = 0
    /\ trace' = <<>>
    /\ exc' = ""
    /\ UNCHANGED <<priors, params, call>>

\* one iteration of `for param, prior in zip(params, priors)`
AllLnpriorsIter ==
    /\ pc = "loop"
    /\ it < Len(Zip(params, priors))
    /\ LET pair == Zip(params, priors)[it + 1]
           f == LoopBody(logp, pair)
       IN /\ trace' = Append(trace, pair)
          /\ pc' = f.pc
          /\ logp' = f.logp
          /\ exc' = f.exc
          /\ it' = it + 1
    /\ UNCHANGED <<priors, params, call>>

\* the zip is exhausted: return logp
AllLnpriorsReturn ==
    /\ pc = "loop"
    /\ it >= Len(Zip(params, priors))
    /\ pc' = "done"
    /\ UNCHANGED <<priors, params, it, logp, trace, exc, call>>

\* the caller evaluating log-probabilities: array calls and the aggregator
Next ==
    \/ \E p \in DOMAIN priors : ComputeLnprob(p)
    \/ AllLnpriorsCall
    \/ AllLnpriorsIter
    \/ AllLnpriorsReturn

Spec == Init /\ [][Next]_vars

\* the caller drawing samples from one prior object
InitDraw ==
    /\ priors \in { <<q>> : q \in PriorObjs \ {RaisingPrior} }
    /\ params = <<>>
    /\ pc = "idle"
    /\ it = 0
    /\ logp = 0
    /\ trace = <<>>
    /\ exc = ""
    /\ call = NoCall

NextDraw ==
    \E p \in DOMAIN priors, num_samples \in 1..MaxSamples :
        DrawSamples(p, num_samples)

SpecDraw == InitDraw /\ [][NextDraw]_vars

\* ------------------------------------------------------------ properties

\* the last direct call was compute_lnprob, on an object of class `kind`
Computed(kind) ==
    /\ call.op = "compute_lnprob"
    /\ priors[call.p].kind = kind

\* x lies outside [minval, maxval] of the bounded prior q
OutOfBounds(q, x) == x < q.minval \/ x > q.maxval

\* the classes with a working compute_lnprob
Working == {"Gaussian", "Jeffreys", "Uniform", "Sin"}

\* the value the mathematics gives compute_lnprob of q at the number x
Lnprob(q, x) ==
    CASE q.kind = "Gaussian" -> ((x - q.mu) * Scale) \div q.sigma
      [] q.kind \in {"Jeffreys", "Uniform"} ->
            IF OutOfBounds(q, x) THEN NegInf ELSE 0
      [] q.kind = "Sin" -> Sin(x)

\* the sum of Lnprob over the first n positions, -inf absorbing
RECURSIVE SumLnprob(_)
SumLnprob(n) ==
    IF n = 0 THEN 0
    ELSE LET s == SumLnprob(n - 1)
             v == Lnprob(priors[n], params[n])
         IN IF s = NegInf \/ v = NegInf THEN NegInf ELSE s + v

\* the first n positions, each prior paired with the parameter at its place
Paired(n) == [k \in 1..n |-> [param |-> params[k], prior |-> priors[k]]]

C2_OutsideSupportIsNegInf ==
    /\ (Computed("Uniform") \/ Computed("Jeffreys")) =>
          \A n \in 1..Len(params) :
              OutOfBounds(priors[call.p], params[n]) => call.ret[n] = NegInf
    /\ Computed("Sin") =>
          \A n \in 1..Len(params) :
              (params[n] < 0 \/ params[n] > Pi) => call.ret[n] = NegInf

C4_Truncates ==
    LET m == Min(Len(params), Len(priors))
    IN (/\ Len(params) # Len(priors)
        /\ \A k \in 1..m : priors[k].kind \in Working) =>
          /\ pc # "raised"
          /\ Len(trace) <= m
          /\ trace = Paired(Len(trace))
          /\ pc = "done" => (trace = Paired(m) /\ logp = SumLnprob(m))

C4_Witness ==
    /\ pc = "done"
    /\ Len(params) = 1
    /\ Len(priors) = 2
    /\ priors[1].kind = "Uniform"
    /\ priors[2].kind = "Raising"
    /\ Len(trace) = 1

\* C5: draw_samples and compute_lnprob of a LinearPrior fail explicitly; they
\* do not return silently.
C5_LinearFails ==
    (call.op \in {"compute_lnprob", "draw_samples"}
        /\ priors[call.p].kind = "Linear") => call.outcome = "raise"

\* C6: when compute_lnprob of the prior at position k raises, all_lnpriors
\* ends with that error: no total is returned, nothing is caught, no later
\* position is evaluated, and each earlier position was evaluated once.
C6_ErrorPropagates ==
    \A k \in 1..Len(trace) :
        trace[k].prior.kind = "Raising" =>
            /\ k = Len(trace)
            /\ pc = "raised"
            /\ exc = Raising_compute_lnprob(trace[k].prior, <<>>).err
            /\ trace = Paired(k)

C6_Witness ==
    /\ pc = "raised"
    /\ Len(priors) = 2
    /\ Len(params) = 2
    /\ priors[1].kind = "Jeffreys"
    /\ priors[2].kind = "Raising"
    /\ Len(trace) = 2
    /\ exc = "Error"

\* C7: no call changes a prior's attributes or the input array, and two
\* compute_lnprob calls on the same prior with the same array, whatever
\* all_lnpriors does between them, return the same output.
C7_NoHiddenState ==
    [][/\ priors' = priors
       /\ params' = params
       /\ (/\ call.op = "compute_lnprob"
           /\ call'.op = "compute_lnprob"
           /\ call'.p = call.p) =>
              (call'.outcome = call.outcome /\ call'.ret = call.ret)]_vars

C7_Witness ==
    /\ call.op = "compute_lnprob"
    /\ call.again
    /\ priors[call.p].kind = "Jeffreys"
    /\ pc = "done"
    /\ Len(trace) = 2
    /\ NegInf \in { call.ret[n] : n \in 1..Len(call.ret) }

\* C8: SinPrior.draw_samples(n) returns n values, each the arccos of one of
\* the uniform draws on [-1, 1], each in [0, pi].
C8_SinSamplesInDomain ==
    (call.op = "draw_samples" /\ priors[call.p].kind = "Sin") =>
        /\ call.outcome = "return"
        /\ Len(call.ret) = call.num_samples
        /\ Len(call.rnd) = call.num_samples
        /\ \A n \in 1..call.num_samples :
              /\ -1000 <= call.rnd[n] /\ call.rnd[n] <= 1000
              /\ call.ret[n] = ArcCos(call.rnd[n])
              /\ 0 <= call.ret[n] /\ call.ret[n] <= Pi

C8_Witness ==
    /\ call.op = "draw_samples"
    /\ priors[call.p].kind = "Sin"
    /\ call.num_samples = 2
    /\ call.rnd = <<-1000, 1000>>
    /\ call.ret = <<Pi, 0>>

\* C9: compute_lnprob of a GaussianPrior with sigma > 0 returns, element by
\* element, (x - mu) / sigma: 0 at mu, negative below mu, positive above mu,
\* never -inf.
C9_GaussianLnprob ==
    Computed("Gaussian") =>
        LET q == priors[call.p]
        IN /\ call.outcome = "return"
           /\ Len(call.ret) = Len(params)
           /\ \A n \in 1..Len(params) :
                 /\ call.ret[n] * q.sigma = (params[n] - q.mu) * Scale
                 /\ params[n] = q.mu => call.ret[n] = 0
                 /\ params[n] < q.mu => call.ret[n] < 0
                 /\ params[n] > q.mu => call.ret[n] > 0
                 /\ call.ret[n] # NegInf

C9_Witness ==
    /\ Computed("Gaussian")
    /\ priors[call.p] = GaussianPrior(1300, 200)
    /\ params = <<1300, 0>>
    /\ call.ret = <<0, -6500>>

====
